---------------------------- MODULE Spec2Model ----------------------------
(***************************************************************************)
(* mcp-uploadthing: an MCP server exposing three upload tools.             *)
(*                                                                         *)
(*   src/unnamed/part_000  lines 1-24    main (process start-up)           *)
(*   src/unnamed/part_000  lines 35-120  createMCPUploadThing, registering *)
(*                                       the tool "upload-file"            *)
(*   src/src/mcp.ts        lines 9-237   createMCPUploadThing, registering *)
(*                                       "upload-files" and                *)
(*                                       "upload-files-from-urls"          *)
(*                                                                         *)
(* One tool invocation is followed from the request to its response.  The  *)
(* handlers are async functions: every `await` is a suspension point, so a *)
(* handler is one action per stretch of code between two awaits.  The file *)
(* system (fs.readFile), the upload service client (UTApi) and the schema  *)
(* validation of the MCP server are the environment: their outcomes are    *)
(* chosen nondeterministically.                                            *)
(***************************************************************************)
EXTENDS Naturals, Sequences, FiniteSets

VARIABLES
    envToken,    \* process.env.UPLOADTHING_TOKEN
    mainPc,      \* position of main(): "start", "connecting", "running", "fatal"
    exitCode,    \* NoExit, or {the status given to process.exit}
    toolToken,   \* per tool: the token of the UTApi client behind it, NoToken if unregistered
    lastCreate,  \* the last call of createMCPUploadThing: its token and whether it threw
    tool,        \* the tool of the invocation in progress, "none" before the first
    pc,          \* "idle", "awaitReads", "awaitUpload", "done", "refused"
    files,       \* params.files, or <<params.file...>> of upload-file
    filesByURL,  \* params.filesByURL
    reads,       \* per input file: "pending", "fulfilled", "rejected"
    svcArgs,     \* the argument lists the upload service was called with, in order
    svcOutcome,  \* "none", "returned", "threw"
    results,     \* the per-item results the service returned
    svcThrown,   \* what the service call threw, NoThrow if nothing
    response     \* the value the handler returned

vars == <<envToken, mainPc, exitCode, toolToken, lastCreate, tool, pc, files, filesByURL,
          reads, svcArgs, svcOutcome, results, svcThrown, response>>

startVars == <<envToken, mainPc, exitCode, toolToken, lastCreate>>
callVars  == <<tool, pc, files, filesByURL, reads, svcArgs, svcOutcome, results, svcThrown,
               response>>

-----------------------------------------------------------------------------
(* Bounds *)

MaxFiles == 3
MaxUrls  == 3

-----------------------------------------------------------------------------
(* Values *)

Absent   == "<undefined>"
NoToken  == "<no client>"
NoExit   == {}
Tokens   == {Absent, "", "sk_live_1"}

UploadFile         == "upload-file"
UploadFiles        == "upload-files"
UploadFilesFromUrl == "upload-files-from-urls"
Tools == {UploadFile, UploadFiles, UploadFilesFromUrl}

Paths     == {"/tmp/a.txt", "/tmp/b.txt"}
Names     == {"a.txt", "b.txt"}
MimeTypes == {"text/plain"}

\* A file entry of the request.  A field that is missing or not a string is Absent.
FileEntries ==
    [filePath : Paths, fileName : Names, fileType : MimeTypes]
      \cup {[filePath |-> Absent, fileName |-> "a.txt", fileType |-> "text/plain"]}

ValidUrls == {"https://x.test/1", "https://x.test/2"}
UrlInputs == ValidUrls \cup {"not a url"}

ReadError == "ENOENT"

\* What the upload service returns per item: { data, error: null } or
\* { data: null, error }.
Null == "null"
ItemResults ==
    {[data |-> "ufsUrl", error |-> Null], [data |-> Null, error |-> "UploadThingError"]}

\* What the upload service call can throw: an Error with a message, or a value
\* that is not an Error.
ThrownValues ==
    {[isErrorObject |-> TRUE,
      message |-> [wording |-> "fetch failed", succ |-> <<>>, fail |-> <<>>]],
     [isErrorObject |-> FALSE,
      message |-> [wording |-> "", succ |-> <<>>, fail |-> <<>>]]}

SeqUpTo(S, n) == UNION {[1..k -> S] : k \in 0..n}

Positions(list) == {list[k].pos : k \in 1..Len(list)}

\* The message of an Error / the text of a response, kept structured: the
\* fixed wording, the items it lists as uploaded, the items it lists as failed.
Message(wording, succ, fail) == [wording |-> wording, succ |-> succ, fail |-> fail]

NoThrow == [isErrorObject |-> FALSE, message |-> Message("<nothing thrown>", <<>>, <<>>)]

NoResponse == [isError |-> FALSE, prefix |-> "", text |-> Message("", <<>>, <<>>)]

-----------------------------------------------------------------------------
(* Start-up *)

TokenMissingAbsentOnly(token) == token = Absent

\* createMCPUploadThing: `!token`
TokenMissing(token) == token \in {Absent, ""}

\* The tools each createMCPUploadThing registers.
ToolsOfIndex == {UploadFile}
ToolsOfMcp   == {UploadFiles, UploadFilesFromUrl}

\* createMCPUploadThing({ token }): throws on a missing token before the server,
\* the client or any tool exists; otherwise registers `tools` on a client
\* built with the token.
createMCPUploadThing(token, tools) ==
    IF TokenMissing(token)
    THEN /\ lastCreate' = [token |-> token, threw |-> TRUE]
         /\ toolToken' = toolToken
    ELSE /\ lastCreate' = [token |-> token, threw |-> FALSE]
         /\ toolToken' = [t \in Tools |-> IF t \in tools THEN token ELSE toolToken[t]]

\* main(): `!token` on the environment's value
MainTokenMissing(token) == token \in {Absent, ""}

\* main(): the token is missing: throw, caught by main().catch: process.exit(1).
MainFatal ==
    /\ pc = "idle"
    /\ mainPc = "start"
    /\ MainTokenMissing(envToken)
    /\ mainPc' = "fatal"
    /\ exitCode' = {1}
    /\ UNCHANGED <<envToken, toolToken, lastCreate>>
    /\ UNCHANGED callVars

\* main(): the token is there: create the server, start connecting (the await).
MainCreate ==
    /\ pc = "idle"
    /\ mainPc = "start"
    /\ ~MainTokenMissing(envToken)
    /\ createMCPUploadThing(envToken, ToolsOfIndex)
    /\ IF lastCreate'.threw
       THEN mainPc' = "fatal" /\ exitCode' = {1}
       ELSE mainPc' = "connecting" /\ exitCode' = exitCode
    /\ UNCHANGED envToken
    /\ UNCHANGED callVars

\* await mcpServer.connect(transport) resolves.
MainConnected ==
    /\ pc = "idle"
    /\ mainPc = "connecting"
    /\ mainPc' = "running"
    /\ UNCHANGED <<envToken, exitCode, toolToken, lastCreate>>
    /\ UNCHANGED callVars

\* await mcpServer.connect(transport) rejects: main().catch: process.exit(1).
MainConnectFails ==
    /\ pc = "idle"
    /\ mainPc = "connecting"
    /\ mainPc' = "fatal"
    /\ exitCode' = {1}
    /\ UNCHANGED <<envToken, toolToken, lastCreate>>
    /\ UNCHANGED callVars

\* The exported createMCPUploadThing of mcp.ts, called by an embedding module
\* with whatever token it has.
CreateFromMcp ==
    /\ pc = "idle"
    /\ \E token \in Tokens : createMCPUploadThing(token, ToolsOfMcp)
    /\ UNCHANGED <<envToken, mainPc, exitCode>>
    /\ UNCHANGED callVars

\* A tool can be called once it is registered; the tool of main's server once
\* the transport is connected.  One call is followed at a time, and start-up
\* code (synchronous but for the connect) runs between calls.
Served(t) ==
    /\ toolToken[t] # NoToken
    /\ t \in ToolsOfIndex => mainPc = "running"
    /\ pc = "idle"

-----------------------------------------------------------------------------
(* Schemas: the server validates the arguments before calling the handler *)

IsUrl(u) == u \in ValidUrls

UrlsSchemaAnyString(urls) == TRUE

\* filesByURL: z.array(z.string().url())
UrlsSchemaOk(urls) == \A i \in 1..Len(urls) : IsUrl(urls[i])

\* z.object({ filePath: z.string(), fileName: z.string(), fileType: z.string() })
FileSchemaOk(file) ==
    /\ file.filePath # Absent
    /\ file.fileName # Absent
    /\ file.fileType # Absent

\* files: z.array(z.object({...}))
FilesSchemaOk(given) == \A i \in 1..Len(given) : FileSchemaOk(given[i])

\* The call is refused with a validation error; the handler does not run.
Refuse(t, fileArgs, urlArgs) ==
    /\ tool' = t
    /\ files' = fileArgs
    /\ filesByURL' = urlArgs
    /\ pc' = "refused"
    /\ reads' = <<>>
    /\ svcArgs' = <<>>
    /\ svcOutcome' = "none"
    /\ results' = <<>>
    /\ svcThrown' = NoThrow
    /\ response' = NoResponse

-----------------------------------------------------------------------------
(* The handlers' pure parts *)

\* new File([buffer], fileName, { type }): the object made for input `idx`.
FileObj(file, idx) == [label |-> file.fileName, type |-> file.fileType, pos |-> idx]

\* One line of a listing: the item's label, the input position it stands for,
\* and what is printed after the colon.
Entry(label, pos, detail) == [label |-> label, pos |-> pos, detail |-> detail]

\* files.map((file, idx) => ({...file, path})).filter(status === "rejected")
failedFiles(settled, given) ==
    SelectSeq([idx \in 1..Len(settled) |->
                  [status |-> settled[idx], path |-> given[idx].filePath, pos |-> idx]],
              LAMBDA f : f.status = "rejected")

\* files.filter(status === "fulfilled").map(file => file.value)
succesfulFiles(settled, given) ==
    LET tagged == [idx \in 1..Len(settled) |->
                      [status |-> settled[idx], value |-> FileObj(given[idx], idx)]]
        kept == SelectSeq(tagged, LAMBDA f : f.status = "fulfilled")
    IN  [k \in 1..Len(kept) |-> kept[k].value]

\* results.map((result, idx) => ({error, item: items[idx]})).filter(r => r.error)
failedUploads(res, items) ==
    SelectSeq([idx \in 1..Len(res) |->
                  Entry(items[idx].label, items[idx].pos, res[idx].error)],
              LAMBDA r : r.detail # Null)

successfulUploadsByError(res, items) ==
    SelectSeq([idx \in 1..Len(res) |->
                  Entry(items[idx].label, items[idx].pos, res[idx].data)],
              LAMBDA r : r.detail = Null)

successfulUploadsUnfiltered(res, items) ==
    [idx \in 1..Len(res) |-> Entry(items[idx].label, items[idx].pos, res[idx].data)]

\* results.map((result, idx) => ({data, item: items[idx]})).filter(r => r.data)
successfulUploads(res, items) ==
    SelectSeq([idx \in 1..Len(res) |->
                  Entry(items[idx].label, items[idx].pos, res[idx].data)],
              LAMBDA r : r.detail # Null)

\* new Error(message)
ErrorOf(message) == [isErrorObject |-> TRUE, message |-> message]

\* `Failed to read files given the following paths: ${path}: ${reason}, ...`
ReadFailuresMessage(failed) ==
    Message("Failed to read files given the following paths",
            <<>>,
            [k \in 1..Len(failed) |-> Entry(failed[k].path, failed[k].pos, ReadError)])

\* `Successfully uploaded ...: ${...}  Failed to upload ...: ${...}`
UploadReportMessage(succ, fail) ==
    Message("Successfully uploaded / Failed to upload", succ, fail)

\* The success return: { content: [{ type: "text", text }] }, no isError.
SuccessResponse(succ) ==
    [isError |-> FALSE, prefix |-> "", text |-> Message("Successfully uploaded", succ, <<>>)]

CaughtTextAlwaysMessage(thrown) == thrown.message

\* error instanceof Error ? error.message : "Unknown error"
CaughtText(thrown) ==
    IF thrown.isErrorObject THEN thrown.message ELSE Message("Unknown error", <<>>, <<>>)

\* The outer catch: { content: [{ type: "text", text: prefix + ... }], isError: true }
CatchResponse(prefix, thrown) ==
    [isError |-> TRUE, prefix |-> prefix, text |-> CaughtText(thrown)]

-----------------------------------------------------------------------------
(* upload-files (mcp.ts 46-157) *)

\* The request arrives.  params.files.map(async ...) starts every read before
\* the handler suspends at `await Promise.allSettled(filesPromises)`.
InvokeUploadFiles ==
    /\ Served(UploadFiles)
    /\ \E given \in SeqUpTo(FileEntries, MaxFiles) :
         IF ~FilesSchemaOk(given)
         THEN Refuse(UploadFiles, given, <<>>)
         ELSE /\ tool' = UploadFiles
              /\ files' = given
              /\ filesByURL' = <<>>
              /\ reads' = [idx \in 1..Len(given) |-> "pending"]
              /\ pc' = "awaitReads"
              /\ svcArgs' = <<>>
              /\ svcOutcome' = "none"
              /\ results' = <<>>
              /\ svcThrown' = NoThrow
              /\ response' = NoResponse
    /\ UNCHANGED startVars

\* One fs.readFile settles: the buffer, or a rejection.
SettleRead ==
    /\ pc = "awaitReads"
    /\ \E idx \in 1..Len(reads) :
         /\ reads[idx] = "pending"
         /\ \E outcome \in {"fulfilled", "rejected"} :
              reads' = [reads EXCEPT ![idx] = outcome]
    /\ UNCHANGED <<tool, pc, files, filesByURL, svcArgs, svcOutcome, results, svcThrown, response>>
    /\ UNCHANGED startVars

ReadsJoinedAllFulfilled(settled) ==
    \A idx \in 1..Len(settled) : settled[idx] = "fulfilled"

ReadsJoinedOnFirstRejection(settled) ==
    \/ \A idx \in 1..Len(settled) : settled[idx] = "fulfilled"
    \/ \E idx \in 1..Len(settled) : settled[idx] = "rejected"

\* Promise.allSettled resolves when every promise has settled.
ReadsJoined(settled) == \A idx \in 1..Len(settled) : settled[idx] # "pending"

\* From the allSettled to the service call or to the catch.
UploadFilesAfterReads ==
    /\ tool = UploadFiles
    /\ pc = "awaitReads"
    /\ ReadsJoined(reads)
    /\ LET failed == failedFiles(reads, files)
           ok     == succesfulFiles(reads, files)
       IN  IF Len(failed) > 0
           THEN /\ response' = CatchResponse("Files upload failed: ",
                                             ErrorOf(ReadFailuresMessage(failed)))
                /\ pc' = "done"
                /\ svcArgs' = svcArgs
           ELSE IF Len(ok) = 0
           THEN /\ response' = CatchResponse("Files upload failed: ",
                       ErrorOf(Message("No files could be read to be uploaded", <<>>, <<>>)))
                /\ pc' = "done"
                /\ svcArgs' = svcArgs
           ELSE /\ svcArgs' = Append(svcArgs, ok)
                /\ pc' = "awaitUpload"
                /\ response' = response
    /\ UNCHANGED <<tool, files, filesByURL, reads, svcOutcome, results, svcThrown>>
    /\ UNCHANGED startVars

\* The prefix of the handler's catch.
CatchPrefix(t) ==
    IF t = UploadFiles THEN "Files upload failed: "
    ELSE IF t = UploadFilesFromUrl THEN "Files by URL upload failed: "
    ELSE "File upload failed: "

\* The service call throws: inner catch rethrows, outer catch responds.
ServiceThrows ==
    /\ pc = "awaitUpload"
    /\ \E thrown \in ThrownValues :
         /\ svcThrown' = thrown
         /\ response' = CatchResponse(CatchPrefix(tool), thrown)
    /\ svcOutcome' = "threw"
    /\ pc' = "done"
    /\ UNCHANGED <<tool, files, filesByURL, reads, svcArgs, results>>
    /\ UNCHANGED startVars

BatchRespondNoThrow(t, res, items) == SuccessResponse(successfulUploads(res, items))

\* From the results of a batch call to the response (mcp.ts 88-136, 173-218).
BatchRespond(t, res, items) ==
    LET failed == failedUploads(res, items)
        ok     == successfulUploads(res, items)
    IN  IF Len(failed) > 0
        THEN CatchResponse(CatchPrefix(t), ErrorOf(UploadReportMessage(ok, failed)))
        ELSE SuccessResponse(ok)

\* The batch call returns one result per item, in order.
BatchServiceReturns ==
    /\ tool \in {UploadFiles, UploadFilesFromUrl}
    /\ pc = "awaitUpload"
    /\ LET items == svcArgs[Len(svcArgs)]
       IN  \E res \in [1..Len(items) -> ItemResults] :
             /\ results' = res
             /\ response' = BatchRespond(tool, res, items)
    /\ svcOutcome' = "returned"
    /\ pc' = "done"
    /\ UNCHANGED <<tool, files, filesByURL, reads, svcArgs, svcThrown>>
    /\ UNCHANGED startVars

-----------------------------------------------------------------------------
(* upload-files-from-urls (mcp.ts 168-233) *)

\* urls.map((url, idx) => ...): the item of position idx
UrlItems(urls) == [idx \in 1..Len(urls) |-> [label |-> urls[idx], type |-> "url", pos |-> idx]]

\* The request arrives; the handler calls utapi.uploadFilesFromUrl(urls) at once.
InvokeUploadFilesFromUrl ==
    /\ Served(UploadFilesFromUrl)
    /\ \E urls \in SeqUpTo(UrlInputs, MaxUrls) :
         IF ~UrlsSchemaOk(urls)
         THEN Refuse(UploadFilesFromUrl, <<>>, urls)
         ELSE /\ tool' = UploadFilesFromUrl
              /\ files' = <<>>
              /\ filesByURL' = urls
              /\ reads' = <<>>
              /\ svcArgs' = <<UrlItems(urls)>>
              /\ pc' = "awaitUpload"
              /\ svcOutcome' = "none"
              /\ results' = <<>>
              /\ svcThrown' = NoThrow
              /\ response' = NoResponse
    /\ UNCHANGED startVars

-----------------------------------------------------------------------------
(* upload-file (part_000 64-113) *)

\* The request arrives; the handler suspends at `await fs.readFile(params.file)`.
InvokeUploadFile ==
    /\ Served(UploadFile)
    /\ \E file \in FileEntries :
         IF ~FileSchemaOk(file)
         THEN Refuse(UploadFile, <<file>>, <<>>)
         ELSE /\ tool' = UploadFile
              /\ files' = <<file>>
              /\ filesByURL' = <<>>
              /\ reads' = <<"pending">>
              /\ pc' = "awaitReads"
              /\ svcArgs' = <<>>
              /\ svcOutcome' = "none"
              /\ results' = <<>>
              /\ svcThrown' = NoThrow
              /\ response' = NoResponse
    /\ UNCHANGED startVars

\* The read has settled: the catch on a rejection, else utapi.uploadFiles(fileObj).
UploadFileAfterRead ==
    /\ tool = UploadFile
    /\ pc = "awaitReads"
    /\ reads[1] # "pending"
    /\ IF reads[1] = "rejected"
       THEN /\ response' = CatchResponse(CatchPrefix(UploadFile),
                   ErrorOf(Message(ReadError, <<>>, <<Entry(files[1].filePath, 1, ReadError)>>)))
            /\ pc' = "done"
            /\ svcArgs' = svcArgs
       ELSE /\ svcArgs' = Append(svcArgs, <<FileObj(files[1], 1)>>)
            /\ pc' = "awaitUpload"
            /\ response' = response
    /\ UNCHANGED <<tool, files, filesByURL, reads, svcOutcome, results, svcThrown>>
    /\ UNCHANGED startVars

\* if (result.error) throw new Error(`Upload failed: ...`); else the success return.
SingleRespond(result, item) ==
    IF result.error # Null
    THEN CatchResponse(CatchPrefix(UploadFile),
            ErrorOf(Message("Upload failed", <<>>, <<Entry(item.label, item.pos, result.error)>>)))
    ELSE [isError |-> FALSE, prefix |-> "",
          text |-> Message("File uploaded successfully",
                           <<Entry(item.label, item.pos, result.data)>>, <<>>)]

\* The single call returns its one result.
SingleServiceReturns ==
    /\ tool = UploadFile
    /\ pc = "awaitUpload"
    /\ \E result \in ItemResults :
         /\ results' = <<result>>
         /\ response' = SingleRespond(result, svcArgs[Len(svcArgs)][1])
    /\ svcOutcome' = "returned"
    /\ pc' = "done"
    /\ UNCHANGED <<tool, files, filesByURL, reads, svcArgs, svcThrown>>
    /\ UNCHANGED startVars

-----------------------------------------------------------------------------
(* The end of a call *)

\* The server sends the handler's return value (or the validation error) to
\* the caller; nothing of the call is kept.
Deliver ==
    /\ pc \in {"done", "refused"}
    /\ pc' = "idle"
    /\ tool' = "none"
    /\ files' = <<>>
    /\ filesByURL' = <<>>
    /\ reads' = <<>>
    /\ svcArgs' = <<>>
    /\ svcOutcome' = "none"
    /\ results' = <<>>
    /\ svcThrown' = NoThrow
    /\ response' = NoResponse
    /\ UNCHANGED startVars

-----------------------------------------------------------------------------
(* Specification *)

Init ==
    /\ envToken \in Tokens
    /\ mainPc = "start"
    /\ exitCode = NoExit
    /\ toolToken = [t \in Tools |-> NoToken]
    /\ lastCreate = [token |-> NoToken, threw |-> FALSE]
    /\ tool = "none"
    /\ pc = "idle"
    /\ files = <<>>
    /\ filesByURL = <<>>
    /\ reads = <<>>
    /\ svcArgs = <<>>
    /\ svcOutcome = "none"
    /\ results = <<>>
    /\ svcThrown = NoThrow
    /\ response = NoResponse

Next ==
    \/ MainFatal
    \/ MainCreate
    \/ MainConnected
    \/ MainConnectFails
    \/ CreateFromMcp
    \/ InvokeUploadFiles
    \/ SettleRead
    \/ UploadFilesAfterReads
    \/ ServiceThrows
    \/ BatchServiceReturns
    \/ InvokeUploadFilesFromUrl
    \/ InvokeUploadFile
    \/ UploadFileAfterRead
    \/ SingleServiceReturns
    \/ Deliver

Spec == Init /\ [][Next]_vars

\* Every read and every service call settles, and the event loop runs the
\* continuation of a settled await.
Settles ==
    /\ WF_vars(SettleRead)
    /\ WF_vars(UploadFilesAfterReads)
    /\ WF_vars(UploadFileAfterRead)
    /\ WF_vars(ServiceThrows \/ BatchServiceReturns \/ SingleServiceReturns)

FairSpec == Spec /\ Settles

-----------------------------------------------------------------------------
(* Properties *)

Batch == {UploadFiles, UploadFilesFromUrl}

\* The input list of the call in progress.
NumInputs == IF tool = UploadFilesFromUrl THEN Len(filesByURL) ELSE Len(files)

Inputs == 1..NumInputs

Rejected == {idx \in 1..Len(reads) : reads[idx] = "rejected"}

ListedUploaded == response.text.succ
ListedFailed   == response.text.fail

\* The positions of a listing grow: the listing keeps the input order.
InInputOrder(list) ==
    \A j, k \in 1..Len(list) : j < k => list[j].pos < list[k].pos

AllAccepted == \A k \in 1..Len(results) : results[k].error = Null

\* C1 (as claimed): a batch of upload-files in which exactly one read fails,
\* the service accepting whatever it is given, answers isError = true, lists
\* exactly that file as failed, and uploads and lists every other file.
C1_OneUnreadableOthersUploaded ==
    (/\ tool = UploadFiles
     /\ pc = "done"
     /\ Cardinality(Rejected) = 1
     /\ svcOutcome # "threw"
     /\ AllAccepted)
    => /\ response.isError
       /\ Positions(ListedFailed) = Rejected
       /\ Positions(ListedUploaded) = Inputs \ Rejected
       /\ \E k \in 1..Len(svcArgs) : Positions(svcArgs[k]) = Inputs \ Rejected

\* C2 (as claimed): a non-empty batch of upload-files whose reads all succeed
\* answers without isError, listing one upload per input, in input order.
C2_AllReadableNoError ==
    (/\ tool = UploadFiles
     /\ pc = "done"
     /\ NumInputs > 0
     /\ \A idx \in Inputs : reads[idx] = "fulfilled")
    => /\ ~response.isError
       /\ Len(ListedUploaded) = NumInputs
       /\ \A k \in 1..Len(ListedUploaded) : ListedUploaded[k].pos = k

\* C2 (amended): a non-empty batch of upload-files whose reads all succeed and
\* for which the service returns data for every file answers without isError,
\* listing one upload per input, in input order, under the file's name.
C2_AllReadableAllAccepted ==
    (/\ tool = UploadFiles
     /\ pc = "done"
     /\ NumInputs > 0
     /\ \A idx \in Inputs : reads[idx] = "fulfilled"
     /\ svcOutcome = "returned"
     /\ AllAccepted)
    => /\ ~response.isError
       /\ Len(ListedUploaded) = NumInputs
       /\ \A k \in 1..Len(ListedUploaded) :
            /\ ListedUploaded[k].pos = k
            /\ ListedUploaded[k].label = files[k].fileName
            /\ ListedUploaded[k].detail = results[k].data

C2_Witness ==
    /\ tool = UploadFiles
    /\ pc = "done"
    /\ NumInputs = MaxFiles
    /\ files[1].fileName # files[2].fileName
    /\ svcOutcome = "returned"
    /\ AllAccepted
    /\ ~response.isError

\* The failure set of a call, as the claim C3 defines it.
SomeItemFailed ==
    \/ Rejected # {}
    \/ \E k \in 1..Len(results) : results[k].error # Null

\* C3 (as claimed): isError is true exactly when some item failed to be read or
\* was reported with an error (batch tools), or when the read failed, the
\* service call threw or the service returned an error (upload-file).
C3_IsErrorIffFailures ==
    pc = "done" =>
        (response.isError <=>
            IF tool \in Batch THEN SomeItemFailed
            ELSE SomeItemFailed \/ svcOutcome = "threw")

\* C3 (amended): for every tool, isError is true exactly when some read
\* failed, the service call threw, the service returned an error for some
\* item, or the call is an upload-files call with an empty files array.
C3_IsErrorIffFailedThrewOrEmpty ==
    pc = "done" =>
        (response.isError <=>
            \/ SomeItemFailed
            \/ svcOutcome = "threw"
            \/ (tool = UploadFiles /\ files = <<>>))

C3_Witness ==
    /\ pc = "done"
    /\ tool = UploadFilesFromUrl
    /\ svcOutcome = "threw"
    /\ NumInputs > 1
    /\ response.isError

\* C4: when a batch call has obtained per-item results, every input is listed
\* exactly once, as uploaded or as failed, each listing in input order and
\* under the item's own label, the failed ones in the text of the response;
\* and the reads that failed are all listed, by path, in the response too.
C4_ListsPartitionInputs ==
    /\ (pc = "done" /\ tool = UploadFiles /\ Rejected # {})
         => /\ Positions(ListedFailed) = Rejected
            /\ InInputOrder(ListedFailed)
            /\ \A k \in 1..Len(ListedFailed) :
                 ListedFailed[k].label = files[ListedFailed[k].pos].filePath
    /\ (pc = "done" /\ tool \in Batch /\ svcOutcome = "returned")
         => /\ Positions(ListedUploaded) \cup Positions(ListedFailed) = Inputs
            /\ Positions(ListedUploaded) \cap Positions(ListedFailed) = {}
            /\ Len(ListedUploaded) + Len(ListedFailed) = NumInputs
            /\ InInputOrder(ListedUploaded)
            /\ InInputOrder(ListedFailed)
            /\ Positions(ListedFailed) = {k \in 1..Len(results) : results[k].error # Null}
            /\ \A k \in 1..Len(ListedFailed) :
                 ListedFailed[k].label =
                     IF tool = UploadFiles THEN files[ListedFailed[k].pos].fileName
                     ELSE filesByURL[ListedFailed[k].pos]

C4_Witness ==
    /\ pc = "done"
    /\ tool = UploadFiles
    /\ svcOutcome = "returned"
    /\ Positions(ListedUploaded) = {1, 3}
    /\ Positions(ListedFailed) = {2}

\* C5: when the service call throws, the handler returns a response with
\* isError = true whose text is the thrown Error's message, or "Unknown error"
\* for a thrown value that is no Error, and lists nothing as uploaded.
C5_ServiceFaultIsOneErrorResponse ==
    svcOutcome = "threw"
    => /\ pc = "done"
       /\ response.isError
       /\ response.prefix = CatchPrefix(tool)
       /\ response.text = IF svcThrown.isErrorObject
                           THEN svcThrown.message
                           ELSE Message("Unknown error", <<>>, <<>>)
       /\ ListedUploaded = <<>>

C5_Witness ==
    /\ svcOutcome = "threw"
    /\ tool = UploadFiles
    /\ ~svcThrown.isErrorObject
    /\ NumInputs > 1

\* C6 (as claimed): no batch tool calls the upload service with an empty
\* sequence of files or URLs.
C6_ServiceNeverGivenEmpty ==
    tool \in Batch => \A k \in 1..Len(svcArgs) : Len(svcArgs[k]) > 0

\* Input that fails the tool's schema.
FailsSchema ==
    \/ \E idx \in 1..Len(filesByURL) : filesByURL[idx] \notin ValidUrls
    \/ \E idx \in 1..Len(files) :
          Absent \in {files[idx].filePath, files[idx].fileName, files[idx].fileType}

\* C7: a call whose input fails the schema (a URL list with a string that is
\* no URL among them) is refused: no read is started and the service is not
\* called for it.
C7_InvalidInputNeverReachesHandler ==
    /\ FailsSchema => (pc = "refused" /\ reads = <<>> /\ svcArgs = <<>>)
    /\ pc = "refused" => (reads = <<>> /\ svcArgs = <<>> /\ svcOutcome = "none")

C7_Witness ==
    /\ pc = "refused"
    /\ tool = UploadFilesFromUrl
    /\ NumInputs > 1
    /\ filesByURL[1] \in ValidUrls

\* C8: with an empty or absent token createMCPUploadThing throws and registers
\* nothing, main ends in the fatal path with exit status 1 before a tool is
\* registered or the transport connected, and no call is served by a tool
\* whose client has no non-empty token.
C8_NoTokenNoServer ==
    /\ \A t \in Tools : toolToken[t] \notin {Absent, ""}
    /\ lastCreate.token \in {Absent, ""} => lastCreate.threw
    /\ envToken \in {Absent, ""} =>
          /\ mainPc \in {"start", "fatal"}
          /\ toolToken[UploadFile] = NoToken
          /\ mainPc = "fatal" => exitCode = {1}
    /\ tool \in Tools => toolToken[tool] \notin {NoToken, Absent, ""}

C8_Witness ==
    /\ envToken = ""
    /\ mainPc = "fatal"
    /\ lastCreate.token = ""
    /\ lastCreate.threw
    /\ \A t \in Tools : toolToken[t] = NoToken

\* C9: in an upload-files call every read is started at once; while a read is
\* unsettled the handler has neither called the service nor answered, whatever
\* the other reads did; and the service is called at most once.
C9_ReadsJoinedBeforeUpload ==
    tool = UploadFiles /\ pc # "refused"
    => /\ Len(reads) = NumInputs
       /\ (\E idx \in 1..Len(reads) : reads[idx] = "pending")
             => (pc = "awaitReads" /\ svcArgs = <<>> /\ response = NoResponse)
       /\ Len(svcArgs) <= 1
       /\ pc = "awaitUpload" => \A idx \in 1..Len(reads) : reads[idx] = "fulfilled"

C9_Witness ==
    /\ tool = UploadFiles
    /\ pc = "awaitReads"
    /\ Len(reads) = MaxFiles
    /\ reads[1] = "pending"
    /\ reads[2] = "rejected"
    /\ reads[3] = "fulfilled"

\* A response: one text entry, possibly isError.
WellFormed(r) ==
    /\ r.isError \in BOOLEAN
    /\ r.text.wording # ""
    /\ r.isError => r.prefix = CatchPrefix(tool)

\* C10: if every read and every service call settles, every call the schema
\* accepts returns a well-formed response, the empty batch and the batch in
\* which every item fails included.
C10_EveryCallAnswered ==
    (pc \in {"awaitReads", "awaitUpload"}) ~> (pc = "done" /\ WellFormed(response))

C10_Witness ==
    /\ tool = UploadFiles
    /\ files = <<>>
    /\ pc = "done"
    /\ WellFormed(response)

=============================================================================
